---- MODULE Spec2Model ----
(***************************************************************************)
(* A model of the RTSP camera of viamrtsp (package viamrtsp, rtspCamera):  *)
(* session lifecycle (newRTSPCamera, reconnectClient, closeConnection,     *)
(* Close), the connection supervisor (clientReconnectBackgroundWorker),    *)
(* the per-packet callbacks installed by initH264 / initH265, and the      *)
(* passthrough subscription registry (SubscribeRTP, Unsubscribe,           *)
(* unsubscribeAll).                                                        *)
(*                                                                         *)
(* Goroutines are modelled as processes with a program counter each.       *)
(* rc.client and rc.rawDecoder are plain fields written by the supervisor  *)
(* goroutine and by Close without synchronisation; every read and write of *)
(* them is a separate step, and a read that the compiler may serve from a  *)
(* register is a choice between the cached and the current value.          *)
(***************************************************************************)
EXTENDS Integers, Sequences, FiniteSets, TLC

\* ---------------------------------------------------------------- bounds
MaxClients == 2      \* gortsplib.Client values created in one behaviour
MaxPackets == 2      \* transport packets received in one behaviour
MaxSubs    == 2      \* SubscribeRTP calls that reach registration
MaxQueue   == 1      \* largest bufferSize passed to SubscribeRTP
MaxPTS     == 1      \* presentation timestamps range over 0..MaxPTS
MaxNalus   == 2      \* sub-units of one access unit
MaxPkts    == 2      \* packets the passthrough encoder makes of one unit

\* ------------------------------------------------------------- constants
Nil == 0             \* a nil pointer (handles are 1, 2, ...)
Half == 65536        \* pkt.Timestamp is a uint32, kept as two 16-bit halves

ClientIds  == 1..MaxClients
DecoderIds == 1..MaxClients
SubIds     == 1..MaxSubs
Threads    == {"rc", "cl"}  \* callers of closeConnection: reconnectClient, Close

VARIABLES
  rtpH264Passthrough, \* rc.rtpH264Passthrough
  client,             \* rc.client
  rawDecoder,         \* rc.rawDecoder
  openClients,        \* clients created and not yet Close()d
  openDecoders,       \* decoders created and not yet close()d
  nClients,           \* clients created so far
  nDecoders,          \* decoders created so far
  cancelled,          \* rc.cancelCtx is done
  ctorPc,             \* position of newRTSPCamera
  supPc,              \* position of the supervisor goroutine
  supRes,             \* res, err of the Options call being judged
  rcPc,               \* position inside reconnectClient
  rcErr,              \* the err reconnectClient is about to return ("nil": none)
  rcBy,               \* who runs reconnectClient: "ctor" or "sup"
  cc,                 \* per caller: position and locals of closeConnection
  closePc,            \* position of Close
  cbClient,           \* client on which OnPacketRTP registered the callback
  cbCodec,            \* codec of the registered callback
  playClient,         \* client on which Play succeeded
  iFrameReceived,     \* initH264's keyframe gate of the registered callback
  latestFrame,        \* rc.latestFrame
  pktPc,              \* position of the packet-receive callback
  pktUnit,            \* unit made by publishToWebRTC, awaiting fan-out
  nPackets,           \* packets received so far
  subsMu,             \* rc.subsMu: "free" or the writer holding it
  subAndCBByID,       \* rc.subAndCBByID (its key set)
  sub,                \* per subscription id: state of the StreamSubscription
  nSubs,              \* subscriptions created so far
  unsubPc,            \* position of an Unsubscribe call
  unsubId,            \* its id argument
  closeId,            \* subscription unsubscribeAll is closing
  lastPublish         \* per subscription: what sub.Publish returned to the
                      \* fan-out of the packet being handled

lifeVars == <<rtpH264Passthrough, client, rawDecoder, openClients, openDecoders,
              nClients, nDecoders, cancelled, ctorPc, supPc, supRes, rcPc, rcErr, rcBy, cc,
              closePc, cbClient, cbCodec, playClient>>
pktVars  == <<iFrameReceived, latestFrame, pktPc, pktUnit, nPackets>>
subVars  == <<subsMu, subAndCBByID, sub, nSubs, unsubPc, unsubId, closeId,
              lastPublish>>
vars     == <<lifeVars, pktVars, subVars>>

\* ------------------------------------------------------- closeConnection
CCOff   == [pc |-> "off", c |-> Nil, d |-> Nil]
CCBegin == [pc |-> "testClient", c |-> Nil, d |-> Nil]

\* The packet-receive callback of client h is running (gortsplib's
\* Client.Close returns only once the client's goroutines have ended).
CallbackInFlight(h) == pktPc # "idle" /\ cbClient = h

\* no Options call is being judged
NoProbe == <<"none", "none">>

\* A panic unwinding the supervisor goroutine out of reconnectClient:
\* goutils.ManagedGo runs the worker function again from its start.
SupRestart ==
  /\ supPc' = "wait"
  /\ supRes' = NoProbe
  /\ rcPc' = "idle"
  /\ rcErr' = "nil"
  /\ cc' = [cc EXCEPT !["rc"] = CCOff]

\* A nil dereference in closeConnection called by thread t.
CCPanic(t) ==
  IF t = "cl"
  THEN /\ closePc' = "panicked"
       /\ cc' = [cc EXCEPT !["cl"] = CCOff]
       /\ UNCHANGED <<supPc, supRes, rcPc, rcErr>>
  ELSE /\ SupRestart
       /\ UNCHANGED closePc

\* if rc.client != nil
CCTestClient(t) ==
  /\ cc[t].pc = "testClient"
  /\ cc' = [cc EXCEPT ![t] = [@ EXCEPT !.c = client,
               !.pc = IF client # Nil THEN "closeClient" ELSE "testDecoder"]]
  /\ UNCHANGED <<rtpH264Passthrough, client, rawDecoder, openClients,
                 openDecoders, nClients, nDecoders, cancelled, ctorPc, supPc, supRes,
                 rcPc, rcErr, rcBy, closePc, cbClient, cbCodec, playClient>>
  /\ UNCHANGED <<pktVars, subVars>>

\* closeConnection forgetting rc.client.Close(): the client is dropped open
CCCloseClientForgotten(t) ==
  /\ cc[t].pc = "closeClient"
  /\ cc' = [cc EXCEPT ![t].pc = "nilClient"]
  /\ UNCHANGED <<rtpH264Passthrough, client, rawDecoder, openClients,
                 openDecoders, nClients, nDecoders, cancelled, ctorPc, supPc, supRes,
                 rcPc, rcErr, rcBy, closePc, cbClient, cbCodec, playClient>>
  /\ UNCHANGED <<pktVars, subVars>>

\* rc.client.Close(): the receiver is the value just tested or a fresh load
CCCloseClient(t) ==
  /\ cc[t].pc = "closeClient"
  /\ \E h \in {cc[t].c, client} :
       IF h = Nil
       THEN /\ CCPanic(t)
            /\ UNCHANGED openClients
       ELSE /\ ~CallbackInFlight(h)
            /\ openClients' = openClients \ {h}
            /\ cc' = [cc EXCEPT ![t].pc = "nilClient"]
            /\ UNCHANGED <<supPc, supRes, rcPc, rcErr, closePc>>
  /\ UNCHANGED <<rtpH264Passthrough, client, rawDecoder, openDecoders,
                 nClients, nDecoders, cancelled, ctorPc, rcBy, cbClient,
                 cbCodec, playClient>>
  /\ UNCHANGED <<pktVars, subVars>>

\* closeConnection leaving rc.client as it is after closing it
CCNilClientForgotten(t) ==
  /\ cc[t].pc = "nilClient"
  /\ cc' = [cc EXCEPT ![t].pc = "testDecoder"]
  /\ UNCHANGED <<rtpH264Passthrough, client, rawDecoder, openClients,
                 openDecoders, nClients, nDecoders, cancelled, ctorPc, supPc, supRes,
                 rcPc, rcErr, rcBy, closePc, cbClient, cbCodec, playClient>>
  /\ UNCHANGED <<pktVars, subVars>>

\* rc.client = nil
CCNilClient(t) ==
  /\ cc[t].pc = "nilClient"
  /\ client' = Nil
  /\ cc' = [cc EXCEPT ![t].pc = "testDecoder"]
  /\ UNCHANGED <<rtpH264Passthrough, rawDecoder, openClients, openDecoders,
                 nClients, nDecoders, cancelled, ctorPc, supPc, supRes, rcPc, rcErr, rcBy,
                 closePc, cbClient, cbCodec, playClient>>
  /\ UNCHANGED <<pktVars, subVars>>

\* if rc.rawDecoder != nil
CCTestDecoder(t) ==
  /\ cc[t].pc = "testDecoder"
  /\ cc' = [cc EXCEPT ![t] = [@ EXCEPT !.d = rawDecoder,
               !.pc = IF rawDecoder # Nil THEN "closeDecoder" ELSE "done"]]
  /\ UNCHANGED <<rtpH264Passthrough, client, rawDecoder, openClients,
                 openDecoders, nClients, nDecoders, cancelled, ctorPc, supPc, supRes,
                 rcPc, rcErr, rcBy, closePc, cbClient, cbCodec, playClient>>
  /\ UNCHANGED <<pktVars, subVars>>

\* rc.rawDecoder.close()
CCCloseDecoder(t) ==
  /\ cc[t].pc = "closeDecoder"
  /\ \E d \in {cc[t].d, rawDecoder} :
       IF d = Nil
       THEN /\ CCPanic(t)
            /\ UNCHANGED openDecoders
       ELSE /\ openDecoders' = openDecoders \ {d}
            /\ cc' = [cc EXCEPT ![t].pc = "nilDecoder"]
            /\ UNCHANGED <<supPc, supRes, rcPc, rcErr, closePc>>
  /\ UNCHANGED <<rtpH264Passthrough, client, rawDecoder, openClients,
                 nClients, nDecoders, cancelled, ctorPc, rcBy, cbClient,
                 cbCodec, playClient>>
  /\ UNCHANGED <<pktVars, subVars>>

\* closeConnection treating the subscriptions as part of the session: the
\* registry is emptied with the decoder
CCNilDecoderAndRegistry(t) ==
  /\ cc[t].pc = "nilDecoder"
  /\ rawDecoder' = Nil
  /\ subAndCBByID' = {}
  /\ cc' = [cc EXCEPT ![t].pc = "done"]
  /\ UNCHANGED <<rtpH264Passthrough, client, openClients, openDecoders,
                 nClients, nDecoders, cancelled, ctorPc, supPc, supRes, rcPc, rcErr, rcBy,
                 closePc, cbClient, cbCodec, playClient>>
  /\ UNCHANGED <<subsMu, sub, nSubs, unsubPc, unsubId, closeId, lastPublish>>
  /\ UNCHANGED pktVars

\* rc.rawDecoder = nil
CCNilDecoder(t) ==
  /\ cc[t].pc = "nilDecoder"
  /\ rawDecoder' = Nil
  /\ cc' = [cc EXCEPT ![t].pc = "done"]
  /\ UNCHANGED <<rtpH264Passthrough, client, openClients, openDecoders,
                 nClients, nDecoders, cancelled, ctorPc, supPc, supRes, rcPc, rcErr, rcBy,
                 closePc, cbClient, cbCodec, playClient>>
  /\ UNCHANGED <<pktVars, subVars>>

closeConnection(t) ==
  \/ CCTestClient(t)
  \/ CCCloseClient(t)
  \/ CCNilClient(t)
  \/ CCTestDecoder(t)
  \/ CCCloseDecoder(t)
  \/ CCNilDecoder(t)

\* ------------------------------------------------------- reconnectClient
restLife == <<rtpH264Passthrough, cancelled, ctorPc, rcBy, closePc>>
sessVars == <<client, rawDecoder, openClients, openDecoders, nClients, nDecoders>>
cbVars   == <<cbClient, cbCodec, playClient>>

\* A nil dereference inside reconnectClient. Once the deferred function of
\* lines 193-197 is registered it runs while the panic unwinds.
RcPanic(deferRegistered) ==
  IF deferRegistered
  THEN /\ rcPc' = "deferPanic"
       /\ UNCHANGED rcErr
       /\ cc' = [cc EXCEPT !["rc"] = CCBegin]
       /\ UNCHANGED <<supPc, supRes>>
  ELSE SupRestart

\* return err with the deferred closeConnection still to run
RcFail(e) ==
  /\ rcPc' = "deferClose"
  /\ rcErr' = e
  /\ cc' = [cc EXCEPT !["rc"] = CCBegin]
  /\ UNCHANGED <<supPc, supRes>>

RcGoto(label) ==
  /\ rcPc' = label
  /\ UNCHANGED rcErr
  /\ UNCHANGED <<cc, supPc, supRes>>

\* rc.client = &gortsplib.Client{} (after the first closeConnection returned)
RcNewClient ==
  /\ rcPc = "closeFirst"
  /\ cc["rc"].pc = "done"
  /\ nClients < MaxClients
  /\ nClients' = nClients + 1
  /\ client' = nClients + 1
  /\ openClients' = openClients \cup {nClients + 1}
  /\ rcPc' = "start"
  /\ UNCHANGED rcErr
  /\ cc' = [cc EXCEPT !["rc"] = CCOff]
  /\ UNCHANGED <<rawDecoder, openDecoders, nDecoders, supPc, supRes>>
  /\ UNCHANGED <<restLife, cbVars, pktVars, subVars>>

\* err = rc.client.Start(...); if err != nil { return err }
RcStart ==
  /\ rcPc = "start"
  /\ IF client = Nil
     THEN RcPanic(FALSE)
     ELSE \E ok \in BOOLEAN :
            IF ok
            THEN RcGoto("describe")
            ELSE /\ rcPc' = "retErr"
                 /\ rcErr' = "Start"
                 /\ UNCHANGED <<cc, supPc, supRes>>
  /\ UNCHANGED <<restLife, sessVars, cbVars, pktVars, subVars>>

\* session, _, err := rc.client.Describe(rc.u)
RcDescribe ==
  /\ rcPc = "describe"
  /\ IF client = Nil
     THEN RcPanic(TRUE)
     ELSE \E ok \in BOOLEAN : IF ok THEN RcGoto("codec") ELSE RcFail("Describe")
  /\ UNCHANGED <<restLife, sessVars, cbVars, pktVars, subVars>>

CodecInfos == {"H264", "H265", "unsupported", "error"}

\* codecInfo, err := getStreamInfo(...); switch codecInfo
RcCodec ==
  /\ rcPc = "codec"
  /\ \E info \in CodecInfos :
       CASE info = "H264" -> RcGoto("h264Decoder")
         [] info = "H265" -> RcGoto("h265Check")
         [] OTHER -> RcFail("getStreamInfo")
  /\ UNCHANGED <<restLife, sessVars, cbVars, pktVars, subVars>>

\* initH264: FindFormat, CreateDecoder, rc.rawDecoder, err = newH264Decoder()
RcInitH264Decoder ==
  /\ rcPc = "h264Decoder"
  /\ \E r \in {"noTrack", "rtpDecErr", "rawDecErr", "ok"} :
       CASE r = "ok" ->
              /\ nDecoders' = nDecoders + 1
              /\ rawDecoder' = nDecoders + 1
              /\ openDecoders' = openDecoders \cup {nDecoders + 1}
              /\ RcGoto("h264Pipeline")
         [] r = "rawDecErr" ->
              /\ rawDecoder' = Nil
              /\ UNCHANGED <<nDecoders, openDecoders>>
              /\ RcFail("initH264")
         [] OTHER ->
              /\ UNCHANGED <<rawDecoder, nDecoders, openDecoders>>
              /\ RcFail("initH264")
  /\ UNCHANGED <<client, openClients, nClients>>
  /\ UNCHANGED <<restLife, cbVars, pktVars, subVars>>

\* initH264: SPS/PPS fed to rc.rawDecoder, the closures are built, and with
\* passthrough formatprocessor.New may fail
RcInitH264Pipeline ==
  /\ rcPc = "h264Pipeline"
  /\ \E hasParams \in BOOLEAN, fpOk \in BOOLEAN :
       IF hasParams /\ rawDecoder = Nil
       THEN RcPanic(TRUE)
       ELSE IF rtpH264Passthrough /\ ~fpOk
            THEN RcFail("initH264")
            ELSE RcGoto("h264Setup")
  /\ UNCHANGED <<restLife, sessVars, cbVars, pktVars, subVars>>

\* initH264: _, err = rc.client.Setup(...)
RcInitH264Setup ==
  /\ rcPc = "h264Setup"
  /\ IF client = Nil
     THEN RcPanic(TRUE)
     ELSE \E ok \in BOOLEAN : IF ok THEN RcGoto("h264OnPacket") ELSE RcFail("initH264")
  /\ UNCHANGED <<restLife, sessVars, cbVars, pktVars, subVars>>

\* initH264: rc.client.OnPacketRTP(media, forma, onPacketRTP), with
\* iFrameReceived := false captured by the callback
RcInitH264OnPacket ==
  /\ rcPc = "h264OnPacket"
  /\ IF client = Nil
     THEN /\ RcPanic(TRUE)
          /\ UNCHANGED <<cbClient, cbCodec, iFrameReceived>>
     ELSE /\ cbClient' = client
          /\ cbCodec' = "H264"
          /\ iFrameReceived' = FALSE
          /\ RcGoto("play")
  /\ UNCHANGED <<restLife, sessVars, playClient, subVars>>
  /\ UNCHANGED <<latestFrame, pktPc, pktUnit, nPackets>>

\* initH265 without its passthrough test: FindFormat comes first
RcInitH265CheckNoRefusal ==
  /\ rcPc = "h265Check"
  /\ \E found \in BOOLEAN :
       IF found THEN RcGoto("h265Setup") ELSE RcFail("initH265")
  /\ UNCHANGED <<restLife, sessVars, cbVars, pktVars, subVars>>

\* initH265: passthrough is refused, then FindFormat
RcInitH265Check ==
  /\ rcPc = "h265Check"
  /\ IF rtpH264Passthrough
     THEN RcFail("h265Passthrough")
     ELSE \E found \in BOOLEAN : IF found THEN RcGoto("h265Setup") ELSE RcFail("initH265")
  /\ UNCHANGED <<restLife, sessVars, cbVars, pktVars, subVars>>

\* initH265: _, err = rc.client.Setup(...)
RcInitH265Setup ==
  /\ rcPc = "h265Setup"
  /\ IF client = Nil
     THEN RcPanic(TRUE)
     ELSE \E ok \in BOOLEAN : IF ok THEN RcGoto("h265Decoder") ELSE RcFail("initH265")
  /\ UNCHANGED <<restLife, sessVars, cbVars, pktVars, subVars>>

\* initH265: CreateDecoder, rc.rawDecoder, err = newH265Decoder()
RcInitH265Decoder ==
  /\ rcPc = "h265Decoder"
  /\ \E r \in {"rtpDecErr", "rawDecErr", "ok"} :
       CASE r = "ok" ->
              /\ nDecoders' = nDecoders + 1
              /\ rawDecoder' = nDecoders + 1
              /\ openDecoders' = openDecoders \cup {nDecoders + 1}
              /\ RcGoto("h265OnPacket")
         [] r = "rawDecErr" ->
              /\ rawDecoder' = Nil
              /\ UNCHANGED <<nDecoders, openDecoders>>
              /\ RcFail("initH265")
         [] OTHER ->
              /\ UNCHANGED <<rawDecoder, nDecoders, openDecoders>>
              /\ RcFail("initH265")
  /\ UNCHANGED <<client, openClients, nClients>>
  /\ UNCHANGED <<restLife, cbVars, pktVars, subVars>>

\* initH265: VPS/SPS/PPS fed to rc.rawDecoder, then rc.client.OnPacketRTP
RcInitH265OnPacket ==
  /\ rcPc = "h265OnPacket"
  /\ \E hasParams \in BOOLEAN :
       IF (hasParams /\ rawDecoder = Nil) \/ client = Nil
       THEN /\ RcPanic(TRUE)
            /\ UNCHANGED <<cbClient, cbCodec>>
       ELSE /\ cbClient' = client
            /\ cbCodec' = "H265"
            /\ RcGoto("play")
  /\ UNCHANGED <<restLife, sessVars, playClient, pktVars, subVars>>

\* _, err = rc.client.Play(nil); clientSuccessful = true
RcPlay ==
  /\ rcPc = "play"
  /\ IF client = Nil
     THEN /\ RcPanic(TRUE)
          /\ UNCHANGED playClient
     ELSE \E ok \in BOOLEAN :
            IF ok
            THEN /\ playClient' = client
                 /\ RcGoto("retOk")
            ELSE /\ UNCHANGED playClient
                 /\ RcFail("Play")
  /\ UNCHANGED <<restLife, sessVars, cbClient, cbCodec, pktVars, subVars>>

\* the deferred closeConnection has finished: the error is returned, or the
\* panic goes on unwinding
RcDeferDone ==
  /\ rcPc \in {"deferClose", "deferPanic"}
  /\ cc["rc"].pc = "done"
  /\ IF rcPc = "deferClose"
     THEN /\ rcPc' = "retErr"
          /\ UNCHANGED rcErr
          /\ cc' = [cc EXCEPT !["rc"] = CCOff]
          /\ UNCHANGED <<supPc, supRes>>
     ELSE SupRestart
  /\ UNCHANGED <<restLife, sessVars, cbVars, pktVars, subVars>>

\* reconnectClient returns to newRTSPCamera (line 540) or to the supervisor
\* (line 147)
RcReturn ==
  /\ rcPc \in {"retOk", "retErr"}
  /\ rcPc' = "idle"
  /\ rcErr' = "nil"
  /\ IF rcBy = "ctor"
     THEN /\ ctorPc' = IF rcPc = "retOk" THEN "startSup" ELSE "failed"
          /\ UNCHANGED <<supPc, supRes>>
     ELSE /\ supPc' = "wait"
          /\ UNCHANGED <<ctorPc, supRes>>
  /\ UNCHANGED <<rtpH264Passthrough, cancelled, rcBy, closePc, cc>>
  /\ UNCHANGED <<sessVars, cbVars, pktVars, subVars>>

reconnectClient ==
  \/ closeConnection("rc")
  \/ RcNewClient
  \/ RcStart
  \/ RcDescribe
  \/ RcCodec
  \/ RcInitH264Decoder
  \/ RcInitH264Pipeline
  \/ RcInitH264Setup
  \/ RcInitH264OnPacket
  \/ RcInitH265Check
  \/ RcInitH265Setup
  \/ RcInitH265Decoder
  \/ RcInitH265OnPacket
  \/ RcPlay
  \/ RcDeferDone
  \/ RcReturn

\* --------------------------------------------------------- newRTSPCamera
\* cancelCtx, cancel := context.WithCancel(...); the reader is installed;
\* rtspCam.clientReconnectBackgroundWorker() starts the supervisor
CtorStartSupervisor ==
  /\ ctorPc = "startSup"
  /\ ctorPc' = "newVideoSource"
  /\ supPc' = "wait"
  /\ UNCHANGED supRes
  /\ UNCHANGED <<rtpH264Passthrough, cancelled, rcPc, rcErr, rcBy, cc, closePc>>
  /\ UNCHANGED <<sessVars, cbVars, pktVars, subVars>>

\* src, err := camera.NewVideoSourceFromReader(...); if err != nil { return nil, err }
CtorFinish ==
  /\ ctorPc = "newVideoSource"
  /\ \E ok \in BOOLEAN : ctorPc' = IF ok THEN "ok" ELSE "failedLate"
  /\ UNCHANGED <<rtpH264Passthrough, cancelled, supPc, supRes, rcPc, rcErr, rcBy, cc, closePc>>
  /\ UNCHANGED <<sessVars, cbVars, pktVars, subVars>>

newRTSPCamera ==
  \/ CtorStartSupervisor
  \/ CtorFinish

\* --------------------------------------- clientReconnectBackgroundWorker
ProbeErrs   == {"nil", "ErrClientTerminated", "EOF", "EPIPE", "ECONNREFUSED", "other"}
ProbeStatus == {"noResponse", "OK", "nonOK"}

\* what res, err := rc.client.Options(rc.u) gives on client h: a response
\* and no error, or an error and no response. A client that has been
\* closed answers ErrClientTerminated; the client left in rc.client by a
\* failed Start (line 189) has no connection that could answer.
OptionsResults(h) ==
  IF h \notin openClients
  THEN {<<"ErrClientTerminated", "noResponse">>}
  ELSE {<<e, "noResponse">> : e \in ProbeErrs \ {"nil"}} \cup
       IF playClient = h
       THEN {<<"nil", st>> : st \in {"OK", "nonOK"}}
       ELSE {}

ConnectionLevel(err) == err \in {"ErrClientTerminated", "EOF", "EPIPE", "ECONNREFUSED"}

\* the tests of lines 134-143 with every error counted as a bad state
ProbeBadOnAnyError(err, status) ==
  IF err # "nil"
  THEN TRUE
  ELSE status = "nonOK"

\* badState after res, err := rc.client.Options(rc.u)
ProbeBad(err, status) ==
  IF err # "nil" /\ ConnectionLevel(err)
  THEN TRUE
  ELSE status = "nonOK"

SupBeginReconnect ==
  /\ supPc' = "reconnect"
  /\ supRes' = NoProbe
  /\ rcPc' = "closeFirst"
  /\ UNCHANGED rcErr
  /\ rcBy' = "sup"
  /\ cc' = [cc EXCEPT !["rc"] = CCBegin]

\* a tick that does not wait for the reconnect of the tick before it
SupTickReentrant ==
  /\ supPc \in {"wait", "reconnect"}
  /\ ~cancelled
  /\ supPc' = "check"
  /\ UNCHANGED <<rtpH264Passthrough, cancelled, ctorPc, supRes, rcPc, rcErr, rcBy, cc, closePc>>
  /\ UNCHANGED <<sessVars, cbVars, pktVars, subVars>>

\* goutils.SelectContextOrWait(rc.cancelCtx, 5*time.Second) returns true
SupTick ==
  /\ supPc = "wait"
  /\ ~cancelled
  /\ supPc' = "check"
  /\ UNCHANGED <<rtpH264Passthrough, cancelled, ctorPc, supRes, rcPc, rcErr, rcBy, cc, closePc>>
  /\ UNCHANGED <<sessVars, cbVars, pktVars, subVars>>

\* SelectContextOrWait returns false: the loop ends and Done is called
SupExit ==
  /\ supPc = "wait"
  /\ cancelled
  /\ supPc' = "done"
  /\ UNCHANGED <<rtpH264Passthrough, cancelled, ctorPc, supRes, rcPc, rcErr, rcBy, cc, closePc>>
  /\ UNCHANGED <<sessVars, cbVars, pktVars, subVars>>

\* if rc.client == nil { badState = true }
SupCheck ==
  /\ supPc = "check"
  /\ IF client = Nil
     THEN SupBeginReconnect
     ELSE /\ supPc' = "probe"
          /\ UNCHANGED <<supRes, rcPc, rcErr, rcBy, cc>>
  /\ UNCHANGED <<rtpH264Passthrough, cancelled, ctorPc, closePc>>
  /\ UNCHANGED <<sessVars, cbVars, pktVars, subVars>>

\* res, err := rc.client.Options(rc.u): rc.client is read a second time
\* with no lock held. Once Close has set it to nil the call dereferences
\* nil, or, where the pointer read at line 130 is used again, is made on
\* the client that was closed.
SupProbe ==
  /\ supPc = "probe"
  /\ \/ /\ client = Nil
        /\ SupRestart
        /\ UNCHANGED rcBy
     \/ \E r \in OptionsResults(client) :
          /\ supPc' = "judge"
          /\ supRes' = r
          /\ UNCHANGED <<rcPc, rcErr, rcBy, cc>>
  /\ UNCHANGED <<rtpH264Passthrough, cancelled, ctorPc, closePc>>
  /\ UNCHANGED <<sessVars, cbVars, pktVars, subVars>>

\* the tests of lines 134-143 and if badState { rc.reconnectClient() }
SupJudge ==
  /\ supPc = "judge"
  /\ IF ProbeBad(supRes[1], supRes[2])
     THEN SupBeginReconnect
     ELSE /\ supPc' = "wait"
          /\ supRes' = NoProbe
          /\ UNCHANGED <<rcPc, rcErr, rcBy, cc>>
  /\ UNCHANGED <<rtpH264Passthrough, cancelled, ctorPc, closePc>>
  /\ UNCHANGED <<sessVars, cbVars, pktVars, subVars>>

clientReconnectBackgroundWorker ==
  \/ SupTick
  \/ SupExit
  \/ SupCheck
  \/ SupProbe
  \/ SupJudge

\* ------------------------------------------------- subscriptions (state)
\* a uint32 is [hi, lo] with value hi * 2^16 + lo
U32(hi, lo) == [hi |-> hi, lo |-> lo]
\* uint32 addition, wrapping modulo 2^32
Add32(a, b) ==
  LET lo == a.lo + b.lo
  IN U32((a.hi + b.hi + (lo \div Half)) % Half, lo % Half)

FirstTs == {U32(0, 0), U32(Half - 1, Half - 1)}  \* tunit.RTPPackets[0].Timestamp
EncTs   == {U32(0, 1)}  \* timestamps the encoder produces
\* a unit.H264: its PTS, whether AU is non-nil, RTPPackets[0].Timestamp
\* (a unit without AU is never looked at further: one value stands for all)
NilUnit == [pts |-> 0, au |-> FALSE, ts |-> U32(0, 0)]
Units   == {NilUnit} \cup [pts : 0..MaxPTS, au : {TRUE}, ts : FirstTs]
\* a job handed to Publish, func() error { return subAndCB.cb(u) }: the
\* unit, and the subscription whose cb subAndCB names when the job runs
Job(u, t) == [unit |-> u, cb |-> t]
\* for _, subAndCB := range rc.subAndCBByID (line 337): the jobs of one
\* fan-out name the loop variable. With a variable per iteration every job
\* calls the cb of its own subscription; with one variable for the whole
\* loop (Go before 1.22) a job that runs once the loop has moved on calls
\* the cb of the entry the variable holds by then, the last of the map's
\* unordered iteration. A unit without AU does nothing in any cb.
JobTargets(registry, u) ==
  IF registry = {} \/ ~u.au
  THEN {[id \in registry |-> id]}
  ELSE {[id \in registry |-> IF id \in late THEN last ELSE id] :
          last \in registry, late \in SUBSET registry}
NoPublish == [id \in 1..MaxSubs |-> "none"]
\* what encoder.Encode(tunit.AU) returns: an error, or the packets' timestamps
EncodeResults ==
  {<<"err">>} \cup {<<"ok", [i \in 1..k |-> e]>> : k \in 0..MaxPkts, e \in EncTs}

NoBatch == [first |-> U32(0, 0), enc |-> <<>>, out |-> <<>>, to |-> Nil]
\* a StreamSubscription with the closure state of its unitSubscriberFunc;
\* running: its delivery task is inside a job or the error handler; batch:
\* what the running packetsCB call was given; errs: the error its error
\* handler (line 449) is being called with
SubNone == [state |-> "none", cap |-> 0, queue |-> <<>>, running |-> FALSE,
            firstReceived |-> FALSE, lastPTS |-> 0, batch |-> NoBatch,
            errs |-> {}]

\* the correction adding the two halves of the timestamps without the carry
CorrectTimestampsNoCarry(pkts, first) ==
  [i \in DOMAIN pkts |->
     U32((pkts[i].hi + first.hi) % Half, (pkts[i].lo + first.lo) % Half)]

\* for _, pkt := range pkts { pkt.Timestamp += tunit.RTPPackets[0].Timestamp }
CorrectTimestamps(pkts, first) ==
  [i \in DOMAIN pkts |-> Add32(pkts[i], first)]

\* unitSubscriberFunc testing tunit.AU only after the ordering bookkeeping
UnitSubscriberFuncLateNilTest(s, u, enc) ==
  IF s.firstReceived /\ u.pts < s.lastPTS
  THEN [firstReceived |-> s.firstReceived, lastPTS |-> s.lastPTS,
        does |-> "orderingError", out |-> <<>>]
  ELSE IF ~u.au
  THEN [firstReceived |-> TRUE, lastPTS |-> u.pts, does |-> "noop", out |-> <<>>]
  ELSE IF enc[1] = "err"
  THEN [firstReceived |-> TRUE, lastPTS |-> u.pts, does |-> "encodeDrop", out |-> <<>>]
  ELSE IF Len(enc[2]) = 0
  THEN [firstReceived |-> TRUE, lastPTS |-> u.pts, does |-> "noPackets", out |-> <<>>]
  ELSE [firstReceived |-> TRUE, lastPTS |-> u.pts, does |-> "callback",
        out |-> CorrectTimestamps(enc[2], u.ts)]

\* unitSubscriberFunc remembering the unit's PTS before it compares it
UnitSubscriberFuncEagerPTS(s, u, enc) ==
  IF ~u.au
  THEN [firstReceived |-> s.firstReceived, lastPTS |-> s.lastPTS,
        does |-> "noop", out |-> <<>>]
  ELSE IF s.firstReceived /\ u.pts < s.lastPTS
  THEN [firstReceived |-> s.firstReceived, lastPTS |-> u.pts,
        does |-> "orderingError", out |-> <<>>]
  ELSE IF enc[1] = "err"
  THEN [firstReceived |-> TRUE, lastPTS |-> u.pts, does |-> "encodeDrop", out |-> <<>>]
  ELSE IF Len(enc[2]) = 0
  THEN [firstReceived |-> TRUE, lastPTS |-> u.pts, does |-> "noPackets", out |-> <<>>]
  ELSE [firstReceived |-> TRUE, lastPTS |-> u.pts, does |-> "callback",
        out |-> CorrectTimestamps(enc[2], u.ts)]

\* unitSubscriberFunc up to the call of packetsCB: the closure's new
\* firstReceived and lastPTS, what it does, and the packets it hands over
UnitSubscriberFunc(s, u, enc) ==
  IF ~u.au
  THEN [firstReceived |-> s.firstReceived, lastPTS |-> s.lastPTS,
        does |-> "noop", out |-> <<>>]
  ELSE IF s.firstReceived /\ u.pts < s.lastPTS
  THEN [firstReceived |-> s.firstReceived, lastPTS |-> s.lastPTS,
        does |-> "orderingError", out |-> <<>>]
  ELSE IF enc[1] = "err"
  THEN [firstReceived |-> TRUE, lastPTS |-> u.pts, does |-> "encodeDrop", out |-> <<>>]
  ELSE IF Len(enc[2]) = 0
  THEN [firstReceived |-> TRUE, lastPTS |-> u.pts, does |-> "noPackets", out |-> <<>>]
  ELSE [firstReceived |-> TRUE, lastPTS |-> u.pts, does |-> "callback",
        out |-> CorrectTimestamps(enc[2], u.ts)]

\* sub.Publish(func): refused once closed, dropped when the queue is at
\* capacity, queued otherwise; the error, if any, goes back to the caller
PublishResult(s) ==
  IF s.state # "active" THEN "closed"
  ELSE IF Len(s.queue) >= s.cap THEN "queueFull"
  ELSE "queued"

\* a Publish that queues whatever the capacity
PublishUnbounded(s, job) ==
  IF s.state = "active" THEN [s EXCEPT !.queue = Append(@, job)] ELSE s

Publish(s, job) ==
  IF PublishResult(s) = "queued" THEN [s EXCEPT !.queue = Append(@, job)] ELSE s

\* ------------------------------------------- SubscribeRTP / Unsubscribe
\* SubscribeRTP without the test of rc.rtpH264Passthrough
SubscribeOutcomeUnchecked(passthrough, made, n) ==
  IF ~made
  THEN [err |-> "error", id |-> Nil, registers |-> FALSE]
  ELSE [err |-> "nil", id |-> n + 1, registers |-> TRUE]

\* what SubscribeRTP returns and whether it gets to register a subscription:
\* made is whether NewStreamSubscription and encoder.Init succeed, n the
\* number of ids given out so far
SubscribeOutcome(passthrough, made, n) ==
  IF ~passthrough
  THEN [err |-> "ErrH264PassthroughNotEnabled", id |-> Nil, registers |-> FALSE]
  ELSE IF ~made
  THEN [err |-> "error", id |-> Nil, registers |-> FALSE]
  ELSE [err |-> "nil", id |-> n + 1, registers |-> TRUE]

\* SubscribeRTP: the passthrough test, NewStreamSubscription, encoder.Init,
\* then registration and sub.Start() under rc.subsMu.Lock()
SubscribeRTP ==
  /\ ctorPc = "ok"
  /\ \E bufferSize \in 1..MaxQueue, made \in BOOLEAN :
       LET r == SubscribeOutcome(rtpH264Passthrough, made, nSubs)
       IN IF ~r.registers
          THEN UNCHANGED <<subAndCBByID, sub, nSubs>>
          ELSE /\ subsMu = "free"
               /\ nSubs < MaxSubs
               /\ nSubs' = nSubs + 1
               /\ subAndCBByID' = subAndCBByID \cup {r.id}
               /\ sub' = [sub EXCEPT ![r.id] =
                            [SubNone EXCEPT !.state = "active", !.cap = bufferSize]]
  /\ UNCHANGED <<subsMu, unsubPc, unsubId, closeId, lastPublish>>
  /\ UNCHANGED <<lifeVars, pktVars>>

\* Unsubscribe returning nil without delete(rc.subAndCBByID, id)
UnsubscribeOutcomeNoDelete(id, registry) ==
  IF id \notin registry
  THEN [err |-> "id not found", closes |-> FALSE, registry |-> registry]
  ELSE [err |-> "nil", closes |-> TRUE, registry |-> registry]

\* what Unsubscribe(id) returns, whether it closes the subscription, and
\* the registry it leaves
UnsubscribeOutcome(id, registry) ==
  IF id \notin registry
  THEN [err |-> "id not found", closes |-> FALSE, registry |-> registry]
  ELSE [err |-> "nil", closes |-> TRUE, registry |-> registry \ {id}]

\* Unsubscribe closing the subscription without holding rc.subsMu
UnsubscribeBeginNoLock ==
  /\ ctorPc = "ok"
  /\ unsubPc = "idle"
  /\ subsMu = "free"
  /\ \E id \in SubIds :
       IF ~UnsubscribeOutcome(id, subAndCBByID).closes
       THEN UNCHANGED <<sub, unsubPc, unsubId>>
       ELSE /\ sub' = [sub EXCEPT ![id].state = "closed"]
            /\ unsubPc' = "closing"
            /\ unsubId' = id
  /\ UNCHANGED <<subsMu, subAndCBByID, nSubs, closeId, lastPublish>>
  /\ UNCHANGED <<lifeVars, pktVars>>

\* Unsubscribe up to subAndCB.sub.Close(): the lock is taken, an unknown id
\* returns "id not found", a known one has its subscription cancelled
UnsubscribeBegin ==
  /\ ctorPc = "ok"
  /\ unsubPc = "idle"
  /\ subsMu = "free"
  /\ \E id \in SubIds :
       IF ~UnsubscribeOutcome(id, subAndCBByID).closes
       THEN UNCHANGED <<subsMu, sub, unsubPc, unsubId>>  \* "id not found"
       ELSE /\ subsMu' = "Unsubscribe"
            /\ sub' = [sub EXCEPT ![id].state = "closed"]
            /\ unsubPc' = "closing"
            /\ unsubId' = id
  /\ UNCHANGED <<subAndCBByID, nSubs, closeId, lastPublish>>
  /\ UNCHANGED <<lifeVars, pktVars>>

\* sub.Close() returns once the delivery task has ended; delete; unlock
UnsubscribeEnd ==
  /\ unsubPc = "closing"
  /\ ~sub[unsubId].running
  /\ subAndCBByID' = UnsubscribeOutcome(unsubId, subAndCBByID).registry
  /\ subsMu' = "free"
  /\ unsubPc' = "idle"
  /\ unsubId' = Nil
  /\ UNCHANGED <<sub, nSubs, closeId, lastPublish>>
  /\ UNCHANGED <<lifeVars, pktVars>>

Unsubscribe ==
  \/ UnsubscribeBegin
  \/ UnsubscribeEnd

\* ------------------------------------------------------- delivery tasks
\* the delivery task of subscription id takes the next queued unit and runs
\* unitSubscriberFunc on it, up to the call of packetsCB
SubDeliver(id) ==
  /\ sub[id].state = "active"
  /\ ~sub[id].running
  /\ sub[id].queue # <<>>
  /\ \E enc \in EncodeResults :
       LET job == Head(sub[id].queue)
           t   == job.cb
           r   == UnitSubscriberFunc(sub[t], job.unit, enc)
           ran == [sub EXCEPT ![t] = [@ EXCEPT !.firstReceived = r.firstReceived,
                                               !.lastPTS = r.lastPTS]]
       IN sub' = [ran EXCEPT ![id] =
                    [@ EXCEPT !.queue = Tail(@),
                              !.running = (r.does \in {"callback", "orderingError"}),
                              !.errs = IF r.does = "orderingError"
                                       THEN {"orderingError"} ELSE @,
                              !.batch = IF r.does = "callback"
                                        THEN [first |-> job.unit.ts, enc |-> enc[2],
                                              out |-> r.out, to |-> t]
                                        ELSE @]]
  /\ UNCHANGED <<subsMu, subAndCBByID, nSubs, unsubPc, unsubId, closeId,
                 lastPublish>>
  /\ UNCHANGED <<lifeVars, pktVars>>

\* packetsCB(pkts) returns: with an error the job's error goes to the
\* error handler, without one the delivery task is free again
SubCallbackReturn(id) ==
  /\ sub[id].running
  /\ sub[id].batch # NoBatch
  /\ \E failed \in BOOLEAN :
       sub' = [sub EXCEPT ![id] =
                 [@ EXCEPT !.running = failed,
                           !.batch = NoBatch,
                           !.errs = IF failed THEN {"callbackError"} ELSE @]]
  /\ UNCHANGED <<subsMu, subAndCBByID, nSubs, unsubPc, unsubId, closeId,
                 lastPublish>>
  /\ UNCHANGED <<lifeVars, pktVars>>

\* the error handler (a log call) returns
SubErrorHandled(id) ==
  /\ sub[id].running
  /\ sub[id].errs # {}
  /\ sub' = [sub EXCEPT ![id] = [@ EXCEPT !.running = FALSE, !.errs = {}]]
  /\ UNCHANGED <<subsMu, subAndCBByID, nSubs, unsubPc, unsubId, closeId,
                 lastPublish>>
  /\ UNCHANGED <<lifeVars, pktVars>>

Delivery ==
  \/ \E id \in SubIds : SubDeliver(id)
  \/ \E id \in SubIds : SubCallbackReturn(id)
  \/ \E id \in SubIds : SubErrorHandled(id)

\* ------------------------------------------- the packet-receive callback
NaluResults == {"image", "noImage", "error"}
\* what rtpDec.Decode(pkt) returns: an error (more packets needed, ...) or an
\* access unit: whether it holds an IDR, and what decoding each NALU gives
AccessUnits ==
  UNION {[idr : BOOLEAN, nalus : [1..n -> NaluResults]] : n \in 1..MaxNalus}

FrameId(pktNo, i) == pktNo * (MaxNalus + 1) + i

\* the reader newRTSPCamera installs: rtspCam.latestFrame.Load(), and
\* "no frame yet" for a nil pointer
VideoReaderFunc(latest) ==
  IF latest = Nil
  THEN [img |-> Nil, err |-> "no frame yet"]
  ELSE [img |-> latest, err |-> "nil"]

\* a decode loop that empties the frame slot when a NALU fails to decode
RECURSIVE DecodeLoopClearing(_, _, _, _)
DecodeLoopClearing(nalus, i, frame, pktNo) ==
  IF i > Len(nalus) THEN frame
  ELSE IF nalus[i] = "error" THEN Nil
  ELSE IF nalus[i] = "image"
       THEN DecodeLoopClearing(nalus, i + 1, FrameId(pktNo, i), pktNo)
  ELSE DecodeLoopClearing(nalus, i + 1, frame, pktNo)

\* a decode loop that goes on to the next NALU after one failed to decode
RECURSIVE DecodeLoopSkipping(_, _, _, _)
DecodeLoopSkipping(nalus, i, frame, pktNo) ==
  IF i > Len(nalus) THEN frame
  ELSE IF nalus[i] = "image"
       THEN DecodeLoopSkipping(nalus, i + 1, FrameId(pktNo, i), pktNo)
  ELSE DecodeLoopSkipping(nalus, i + 1, frame, pktNo)

\* for _, nalu := range au { image, err := rc.rawDecoder.decode(nalu) ... }:
\* the frame slot after NALUs i.. of packet pktNo, starting from frame
RECURSIVE DecodeLoop(_, _, _, _)
DecodeLoop(nalus, i, frame, pktNo) ==
  IF i > Len(nalus) THEN frame
  ELSE IF nalus[i] = "error" THEN frame
  ELSE IF nalus[i] = "image" THEN DecodeLoop(nalus, i + 1, FrameId(pktNo, i), pktNo)
  ELSE DecodeLoop(nalus, i + 1, frame, pktNo)

\* storeImage decoding every unit, whether or not an IDR has been seen
StoreImageH264Ungated(gate, au, frame, pktNo) ==
  [gate |-> gate \/ au.idr, frame |-> DecodeLoop(au.nalus, 1, frame, pktNo)]

\* storeImage of initH264 on a depacketized unit: the new gate and frame slot
StoreImageH264(gate, au, frame, pktNo) ==
  IF ~gate /\ ~au.idr
  THEN [gate |-> gate, frame |-> frame]
  ELSE [gate |-> TRUE, frame |-> DecodeLoop(au.nalus, 1, frame, pktNo)]

\* the callback of initH265 on a depacketized unit: no gate
StoreImageH265(gate, au, frame, pktNo) ==
  [gate |-> gate, frame |-> DecodeLoop(au.nalus, 1, frame, pktNo)]

\* rc.rawDecoder.decode(nalu) returns an error for one of the unit's NALUs
DecodeFails(au) == \E i \in DOMAIN au.nalus : au.nalus[i] = "error"

\* onPacketRTP with the two calls of lines 345-346 exchanged
OnPacketRTPStagesDecodeFirst(passthrough) ==
  IF passthrough THEN <<"store", "publish">> ELSE <<"store">>

\* the stages of onPacketRTP, in order: storeImage(pkt) alone, or with
\* passthrough (lines 344-347) publishToWebRTC(pkt); storeImage(pkt)
OnPacketRTPStages(passthrough) ==
  IF passthrough THEN <<"publish", "store">> ELSE <<"store">>

CallbackStages == OnPacketRTPStages(cbCodec = "H264" /\ rtpH264Passthrough)

\* where the callback goes when stage is over
AfterStage(stage) ==
  LET i == CHOOSE k \in DOMAIN CallbackStages : CallbackStages[k] = stage
  IN IF i < Len(CallbackStages) THEN CallbackStages[i + 1] ELSE "idle"

\* the transport hands a packet to the registered callback
PktArrive ==
  /\ pktPc = "idle"
  /\ cbClient # Nil
  /\ cbClient = playClient
  /\ cbClient \in openClients
  /\ nPackets < MaxPackets
  /\ nPackets' = nPackets + 1
  /\ pktPc' = CallbackStages[1]
  /\ UNCHANGED <<iFrameReceived, latestFrame, pktUnit>>
  /\ UNCHANGED <<lifeVars, subVars>>

\* publishToWebRTC with its early returns ending onPacketRTP as well
PktPublishEndsCallback ==
  /\ pktPc = "publish"
  /\ IF client = Nil
     THEN /\ pktPc' = "panicked"
          /\ UNCHANGED pktUnit
     ELSE \/ /\ pktPc' = "idle"
             /\ UNCHANGED pktUnit
          \/ \E u \in Units :
               /\ pktPc' = "rlock"
               /\ pktUnit' = u
  /\ UNCHANGED <<iFrameReceived, latestFrame, nPackets>>
  /\ UNCHANGED <<lifeVars, subVars>>

\* publishToWebRTC up to rc.subsMu.RLock(): rc.client.PacketPTS and
\* fp.ProcessRTPPacket make the unit, or the function returns early
PktPublish ==
  /\ pktPc = "publish"
  /\ IF client = Nil
     THEN /\ pktPc' = "panicked"
          /\ UNCHANGED pktUnit
     ELSE \/ /\ pktPc' = AfterStage("publish")  \* no PTS, or fp's error
             /\ UNCHANGED pktUnit
          \/ \E u \in Units :
               /\ pktPc' = "rlock"
               /\ pktUnit' = u
  /\ UNCHANGED <<iFrameReceived, latestFrame, nPackets>>
  /\ UNCHANGED <<lifeVars, subVars>>

\* publishToWebRTC from RLock to RUnlock: the unit is published to every
\* registered subscription; a Publish error is logged by the producer
PktFanout ==
  /\ pktPc = "rlock"
  /\ subsMu = "free"
  /\ \E target \in JobTargets(subAndCBByID, pktUnit) :
       sub' = [id \in SubIds |->
                 IF id \in subAndCBByID
                 THEN Publish(sub[id], Job(pktUnit, target[id]))
                 ELSE sub[id]]
  /\ lastPublish' = [id \in SubIds |->
               IF id \in subAndCBByID THEN PublishResult(sub[id]) ELSE "none"]
  /\ pktPc' = AfterStage("publish")
  /\ pktUnit' = NilUnit
  /\ UNCHANGED <<subsMu, subAndCBByID, nSubs, unsubPc, unsubId, closeId>>
  /\ UNCHANGED <<iFrameReceived, latestFrame, nPackets>>
  /\ UNCHANGED lifeVars

\* storeImage (initH264) or the callback of initH265: rtpDec.Decode gives
\* an error or an access unit, which goes through rc.rawDecoder
PktStore ==
  /\ pktPc = "store"
  /\ \/ /\ pktPc' = AfterStage("store")
        /\ UNCHANGED <<iFrameReceived, latestFrame>>
     \/ \E au \in AccessUnits :
          LET r == IF cbCodec = "H264"
                   THEN StoreImageH264(iFrameReceived, au, latestFrame, nPackets)
                   ELSE StoreImageH265(iFrameReceived, au, latestFrame, nPackets)
              decodes == cbCodec = "H265" \/ iFrameReceived \/ au.idr
          IN IF decodes /\ rawDecoder = Nil
             THEN /\ pktPc' = "panicked"
                  /\ UNCHANGED <<iFrameReceived, latestFrame>>
             ELSE /\ pktPc' = IF decodes /\ DecodeFails(au)
                              THEN "decodeError"
                              ELSE AfterStage("store")
                  /\ iFrameReceived' = r.gate
                  /\ latestFrame' = r.frame
  /\ lastPublish' = IF pktPc' = "idle" THEN NoPublish ELSE lastPublish
  /\ UNCHANGED <<pktUnit, nPackets>>
  /\ UNCHANGED <<subsMu, subAndCBByID, sub, nSubs, unsubPc, unsubId, closeId>>
  /\ UNCHANGED lifeVars

\* rc.logger.Error("error decoding(2) ..."); return (lines 299-300, 425-426)
PktDecodeError ==
  /\ pktPc = "decodeError"
  /\ pktPc' = AfterStage("store")
  /\ lastPublish' = IF pktPc' = "idle" THEN NoPublish ELSE lastPublish
  /\ UNCHANGED <<iFrameReceived, latestFrame, pktUnit, nPackets>>
  /\ UNCHANGED <<subsMu, subAndCBByID, sub, nSubs, unsubPc, unsubId, closeId>>
  /\ UNCHANGED lifeVars

OnPacketRTP ==
  \/ PktArrive
  \/ PktPublish
  \/ PktFanout
  \/ PktStore
  \/ PktDecodeError

\* ----------------------------------------------------------------- Close
\* rc.cancelFunc()
CloseCancel ==
  /\ ctorPc = "ok"
  /\ closePc = "idle"
  /\ cancelled' = TRUE
  /\ closePc' = "unsubscribeAll"
  /\ UNCHANGED <<rtpH264Passthrough, ctorPc, supPc, supRes, rcPc, rcErr, rcBy, cc>>
  /\ UNCHANGED <<sessVars, cbVars, pktVars, subVars>>

\* unsubscribeAll: rc.subsMu.Lock()
CloseLock ==
  /\ closePc = "unsubscribeAll"
  /\ subsMu = "free"
  /\ subsMu' = "unsubscribeAll"
  /\ closePc' = "unsubscribeLoop"
  /\ UNCHANGED <<subAndCBByID, sub, nSubs, unsubPc, unsubId, closeId,
                 lastPublish>>
  /\ UNCHANGED <<rtpH264Passthrough, cancelled, ctorPc, supPc, supRes, rcPc, rcErr, rcBy, cc>>
  /\ UNCHANGED <<sessVars, cbVars, pktVars>>

\* unsubscribeAll: the next subscription of the map is cancelled
\* (subAndCB.sub.Close() begins); with none left the lock is released and
\* closeConnection is next
CloseUnsubBegin ==
  /\ closePc = "unsubscribeLoop"
  /\ closeId = Nil
  /\ IF subAndCBByID = {}
     THEN /\ subsMu' = "free"
          /\ closePc' = "closeConnection"
          /\ cc' = [cc EXCEPT !["cl"] = CCBegin]
          /\ UNCHANGED <<sub, closeId>>
     ELSE \E id \in subAndCBByID :
            /\ sub' = [sub EXCEPT ![id].state = "closed"]
            /\ closeId' = id
            /\ UNCHANGED <<subsMu, closePc, cc>>
  /\ UNCHANGED <<subAndCBByID, nSubs, unsubPc, unsubId, lastPublish>>
  /\ UNCHANGED <<rtpH264Passthrough, cancelled, ctorPc, supPc, supRes, rcPc, rcErr, rcBy>>
  /\ UNCHANGED <<sessVars, cbVars, pktVars>>

\* unsubscribeAll: sub.Close() returns once the delivery task has ended;
\* delete(rc.subAndCBByID, id)
CloseUnsubDelete ==
  /\ closePc = "unsubscribeLoop"
  /\ closeId # Nil
  /\ ~sub[closeId].running
  /\ subAndCBByID' = subAndCBByID \ {closeId}
  /\ closeId' = Nil
  /\ UNCHANGED <<subsMu, sub, nSubs, unsubPc, unsubId, lastPublish>>
  /\ UNCHANGED <<lifeVars, pktVars>>

\* rc.closeConnection() has returned: rc.activeBackgroundWorkers.Wait()
CloseWait ==
  /\ closePc = "closeConnection"
  /\ cc["cl"].pc = "done"
  /\ closePc' = "wait"
  /\ cc' = [cc EXCEPT !["cl"] = CCOff]
  /\ UNCHANGED <<rtpH264Passthrough, cancelled, ctorPc, supPc, supRes, rcPc, rcErr, rcBy>>
  /\ UNCHANGED <<sessVars, cbVars, pktVars, subVars>>

\* Wait returns once the supervisor has called Done; return nil
CloseReturn ==
  /\ closePc = "wait"
  /\ supPc = "done"
  /\ closePc' = "returned"
  /\ UNCHANGED <<rtpH264Passthrough, cancelled, ctorPc, supPc, supRes, rcPc, rcErr, rcBy, cc>>
  /\ UNCHANGED <<sessVars, cbVars, pktVars, subVars>>

Close ==
  \/ CloseCancel
  \/ CloseLock
  \/ CloseUnsubBegin
  \/ CloseUnsubDelete
  \/ closeConnection("cl")
  \/ CloseWait
  \/ CloseReturn

\* -------------------------------------------------------- specifications
\* newRTSPCamera has built the rtspCamera value and is about to call
\* reconnectClient (line 540)
Init ==
  /\ rtpH264Passthrough \in BOOLEAN
  /\ client = Nil
  /\ rawDecoder = Nil
  /\ openClients = {}
  /\ openDecoders = {}
  /\ nClients = 0
  /\ nDecoders = 0
  /\ cancelled = FALSE
  /\ ctorPc = "reconnect"
  /\ supPc = "off"
  /\ supRes = NoProbe
  /\ rcPc = "closeFirst"
  /\ rcErr = "nil"
  /\ rcBy = "ctor"
  /\ cc = [t \in Threads |-> IF t = "rc" THEN CCBegin ELSE CCOff]
  /\ closePc = "idle"
  /\ cbClient = Nil
  /\ cbCodec = "none"
  /\ playClient = Nil
  /\ iFrameReceived = FALSE
  /\ latestFrame = Nil
  /\ pktPc = "idle"
  /\ pktUnit = NilUnit
  /\ nPackets = 0
  /\ subsMu = "free"
  /\ subAndCBByID = {}
  /\ sub = [id \in SubIds |-> SubNone]
  /\ nSubs = 0
  /\ unsubPc = "idle"
  /\ unsubId = Nil
  /\ closeId = Nil
  /\ lastPublish = NoPublish

\* every goroutine of the camera
Next ==
  \/ newRTSPCamera
  \/ reconnectClient
  \/ clientReconnectBackgroundWorker
  \/ OnPacketRTP
  \/ SubscribeRTP
  \/ Unsubscribe
  \/ Delivery
  \/ Close

Spec == Init /\ [][Next]_vars

\* The session and the registry: construction, supervisor, Close and the
\* subscribe / unsubscribe calls, with no packets arriving.
SessionNext ==
  \/ newRTSPCamera
  \/ reconnectClient
  \/ clientReconnectBackgroundWorker
  \/ Close
  \/ SubscribeRTP
  \/ Unsubscribe

SessionSpec == Init /\ [][SessionNext]_vars

\* The same with the supervisor goroutine scheduled whenever it can run:
\* its 5 second wait ends, and the calls it makes return.
FairSessionSpec ==
  /\ SessionSpec
  /\ WF_vars(clientReconnectBackgroundWorker)
  /\ WF_vars(reconnectClient)

\* The session and the packets it receives, with nobody subscribing.
RawNext ==
  \/ newRTSPCamera
  \/ reconnectClient
  \/ clientReconnectBackgroundWorker
  \/ CloseCancel
  \/ CloseLock
  \/ CloseUnsubBegin
  \/ closeConnection("cl")
  \/ CloseWait
  \/ CloseReturn
  \/ OnPacketRTP

RawSpec == Init /\ [][RawNext]_vars

\* newRTSPCamera has returned a camera with passthrough enabled whose first
\* session is an H.264 one that is playing; the supervisor is waiting.
InitPass ==
  /\ rtpH264Passthrough = TRUE
  /\ client = 1
  /\ rawDecoder = 1
  /\ openClients = {1}
  /\ openDecoders = {1}
  /\ nClients = 1
  /\ nDecoders = 1
  /\ cancelled = FALSE
  /\ ctorPc = "ok"
  /\ supPc = "wait"
  /\ supRes = NoProbe
  /\ rcPc = "idle"
  /\ rcErr = "nil"
  /\ rcBy = "ctor"
  /\ cc = [t \in Threads |-> CCOff]
  /\ closePc = "idle"
  /\ cbClient = 1
  /\ cbCodec = "H264"
  /\ playClient = 1
  /\ iFrameReceived = FALSE
  /\ latestFrame = Nil
  /\ pktPc = "idle"
  /\ pktUnit = NilUnit
  /\ nPackets = 0
  /\ subsMu = "free"
  /\ subAndCBByID = {}
  /\ sub = [id \in SubIds |-> SubNone]
  /\ nSubs = 0
  /\ unsubPc = "idle"
  /\ unsubId = Nil
  /\ closeId = Nil
  /\ lastPublish = NoPublish

\* The passthrough path of that session: packets, subscribers and their
\* delivery tasks, while the supervisor finds the session healthy.
PassNext ==
  \/ OnPacketRTP
  \/ SubscribeRTP
  \/ Unsubscribe
  \/ Delivery

PassSpec == InitPass /\ [][PassNext]_vars

\* That camera with one subscription registered, which has been handed the
\* unit of the session's first packet, of PTS MaxPTS, and has accepted it.
InitResume ==
  /\ rtpH264Passthrough = TRUE
  /\ client = 1
  /\ rawDecoder = 1
  /\ openClients = {1}
  /\ openDecoders = {1}
  /\ nClients = 1
  /\ nDecoders = 1
  /\ cancelled = FALSE
  /\ ctorPc = "ok"
  /\ supPc = "wait"
  /\ supRes = NoProbe
  /\ rcPc = "idle"
  /\ rcErr = "nil"
  /\ rcBy = "ctor"
  /\ cc = [t \in Threads |-> CCOff]
  /\ closePc = "idle"
  /\ cbClient = 1
  /\ cbCodec = "H264"
  /\ playClient = 1
  /\ iFrameReceived = FALSE
  /\ latestFrame = Nil
  /\ pktPc = "idle"
  /\ pktUnit = NilUnit
  /\ nPackets = 1
  /\ subsMu = "free"
  /\ subAndCBByID = {1}
  /\ sub = [id \in SubIds |->
             IF id = 1
             THEN [SubNone EXCEPT !.state = "active", !.cap = MaxQueue,
                                  !.firstReceived = TRUE, !.lastPTS = MaxPTS]
             ELSE SubNone]
  /\ nSubs = 1
  /\ unsubPc = "idle"
  /\ unsubId = Nil
  /\ closeId = Nil
  /\ lastPublish = NoPublish

\* The supervisor rebuilding the session of that camera while packets
\* arrive and the subscription's delivery task runs.
ResumeNext ==
  \/ SupTick
  \/ SupCheck
  \/ SupProbe
  \/ SupJudge
  \/ closeConnection("rc")
  \/ RcNewClient
  \/ RcStart
  \/ RcDescribe
  \/ RcCodec
  \/ RcInitH264Decoder
  \/ RcInitH264Pipeline
  \/ RcInitH264Setup
  \/ RcInitH264OnPacket
  \/ RcInitH265Check
  \/ RcPlay
  \/ RcDeferDone
  \/ RcReturn
  \/ OnPacketRTP
  \/ Delivery

ResumeSpec == InitResume /\ [][ResumeNext]_vars

\* That camera being closed as well. Every goroutine that can run does run:
\* Close once called, the supervisor, a packet-receive callback that has
\* begun, and the delivery task, whose subscriber callback may take long
\* but returns.
CloseRunNext ==
  \/ ResumeNext
  \/ SupExit
  \/ Close

FairCloseSpec ==
  /\ InitResume
  /\ [][CloseRunNext]_vars
  /\ WF_vars(Close)
  /\ WF_vars(clientReconnectBackgroundWorker)
  /\ WF_vars(reconnectClient)
  /\ WF_vars(PktPublish \/ PktFanout \/ PktStore \/ PktDecodeError)
  /\ WF_vars(Delivery)

\* ================================================================ claims

\* C1: when reconnectClient returns an error, whichever sub-step failed, the
\* session is torn down: rc.client and rc.rawDecoder are both nil.
C1_FailedReconnectTornDown ==
  rcPc = "retErr" => (client = Nil /\ rawDecoder = Nil)

\* C2: Close stops the supervisor before it unsubscribes and closes the
\* session: once Close has taken the registry lock in unsubscribeAll, the
\* supervisor takes no health-check or reconnect step any more; all it may
\* still do is leave its wait.
ClosePastCancel == closePc \in {"unsubscribeLoop", "closeConnection", "wait"}
SupervisorStep ==
  /\ <<supPc, rcPc, cc["rc"]>>' # <<supPc, rcPc, cc["rc"]>>
  /\ ~(supPc = "wait" /\ supPc' = "done")
C2_NoSupervisorStepOnceCloseUnsubscribes ==
  [][ClosePastCancel => ~SupervisorStep]_vars

\* C3: at most one client and one raw decoder are open at any time, and when
\* reconnectClient has just made its new client, every earlier client and
\* decoder is closed.
C3_AtMostOneSession ==
  /\ Cardinality(openClients) <= 1
  /\ Cardinality(openDecoders) <= 1
  /\ rcPc = "start" => (openClients \subseteq {nClients} /\ openDecoders = {})
\* a second session has replaced the first, which is closed
C3_Witness ==
  /\ nClients = 2
  /\ playClient = 2
  /\ openClients = {2}
  /\ openDecoders = {2}
  /\ rcPc = "retOk"

\* C4: no step of reconnectClient (its closeConnection calls included)
\* changes the registry or the state of a subscription.
ReconnectStep ==
  /\ rcPc # "idle"
  /\ <<rcPc, cc["rc"]>>' # <<rcPc, cc["rc"]>>
C4_ReconnectKeepsRegistry ==
  [][ReconnectStep => (subAndCBByID' = subAndCBByID /\ sub' = sub)]_vars
\* the supervisor has reconnected, with or without success, while two
\* subscriptions were registered
C4_Witness ==
  /\ subAndCBByID = {1, 2}
  /\ rcBy = "sup"
  /\ rcPc \in {"retOk", "retErr"}
  /\ nClients = 2

\* C5: the keyframe gate of an H.264 pipeline is false whenever a pipeline is
\* created (after a reconnect too); the frame slot never changes under an
\* H.264 pipeline whose gate is still false after the step; a unit opens a
\* closed gate exactly when it holds an IDR, a unit without one leaves the
\* slot alone while the gate is closed, and an open gate stays open.
PipelineCreated == cbClient' # cbClient /\ cbCodec' = "H264"
GateOpensOnIDR ==
  \A au \in AccessUnits, frame \in {Nil, FrameId(1, 1)}, n \in 1..MaxPackets :
    /\ StoreImageH264(FALSE, au, frame, n).gate = au.idr
    /\ ~au.idr => StoreImageH264(FALSE, au, frame, n).frame = frame
    /\ StoreImageH264(TRUE, au, frame, n).gate
C5_KeyframeGate ==
  [][/\ PipelineCreated => ~iFrameReceived'
     /\ (cbCodec = "H264" /\ latestFrame' # latestFrame) => iFrameReceived'
     /\ (cbCodec = "H264" /\ cbClient' = cbClient /\ iFrameReceived)
          => iFrameReceived'
     /\ GateOpensOnIDR]_vars
\* the second H.264 pipeline, created by a reconnect, has seen an IDR and
\* stored the image of the second packet
C5_Witness ==
  /\ cbCodec = "H264"
  /\ cbClient = 2
  /\ iFrameReceived
  /\ latestFrame = FrameId(2, 1)

\* C6 (as the code has it): for each packet of an H.264 session with
\* passthrough, the callback runs publishToWebRTC first and storeImage
\* second: it starts in the passthrough stage, enters the decode stage only
\* from the passthrough stage, decodes nothing while in the passthrough
\* stage and publishes nothing while in the decode stage.
PassthroughSession == cbCodec = "H264" /\ rtpH264Passthrough
InPublish == pktPc \in {"publish", "rlock"}
C6_PassthroughThenDecode ==
  [][PassthroughSession =>
       /\ (pktPc = "idle" /\ pktPc' # "idle") => pktPc' = "publish"
       /\ (pktPc # "store" /\ pktPc' = "store") => InPublish
       /\ InPublish => /\ latestFrame' = latestFrame
                       /\ iFrameReceived' = iFrameReceived
       /\ pktPc = "store" =>
            \A id \in SubIds : Len(sub'[id].queue) <= Len(sub[id].queue)]_vars
\* a packet has been published to a subscription and is now about to be
\* decoded
C6_Witness ==
  /\ PassthroughSession
  /\ pktPc = "store"
  /\ \E id \in SubIds : lastPublish[id] = "queued"
\* C6 as stated: the packet goes to the decode pipeline first and to the
\* passthrough encoder second.
C6_DecodeThenPassthrough ==
  [][PassthroughSession =>
       /\ (pktPc = "idle" /\ pktPc' # "idle") => pktPc' = "store"
       /\ (~InPublish /\ InPublish') => pktPc = "store"]_vars

\* C7: the packet-receive callback is never held at the registry lock by a
\* writer that is itself waiting for a subscriber callback to return.
WriterWaitsOnCallback ==
  \/ unsubPc = "closing" /\ sub[unsubId].batch # NoBatch
  \/ closeId # Nil /\ sub[closeId].batch # NoBatch
C7_IngestionNeverWaitsOnSubscriber ==
  ~(pktPc = "rlock" /\ subsMu # "free" /\ WriterWaitsOnCallback)

\* C8 (as the code has it): when publishToWebRTC publishes to an active
\* subscription whose queue is at capacity, the new item is dropped, the
\* queued items and the rest of the subscription stay as they were, its
\* error handler is not called, the queue-full error goes back to the
\* producer, and the fan-out is never held up by a full queue.
FanoutStep == pktPc = "rlock" /\ pktPc' # "rlock"
QueueFull(id) ==
  /\ id \in subAndCBByID
  /\ sub[id].state = "active"
  /\ Len(sub[id].queue) >= sub[id].cap
DeliverStep(id) ==
  /\ sub[id].state = "active"
  /\ Len(sub'[id].queue) < Len(sub[id].queue)
Taken(id) == Head(sub[id].queue).unit
Called(id) == Head(sub[id].queue).cb
OutOfOrder(id) ==
  /\ sub[Called(id)].firstReceived
  /\ Taken(id).pts < sub[Called(id)].lastPTS
C9_OutOfOrderUnitRejected ==
  [][\A id \in SubIds :
       (DeliverStep(id) /\ Taken(id).au) =>
         IF OutOfOrder(id)
         THEN /\ "orderingError" \in sub'[id].errs
              /\ sub'[id].batch = NoBatch
              /\ sub'[Called(id)].lastPTS = sub[Called(id)].lastPTS
         ELSE /\ sub'[id].errs = sub[id].errs
              /\ sub'[Called(id)].firstReceived
              /\ sub'[Called(id)].lastPTS = Taken(id).pts]_vars
\* a subscription has accepted a unit of PTS 1 and then rejected one of
\* PTS 0
C9_Witness ==
  \E id \in SubIds :
    /\ "orderingError" \in sub[id].errs
    /\ sub[id].firstReceived
    /\ sub[id].lastPTS = 1
    /\ sub[id].batch = NoBatch

\* C10: the packets a subscriber callback is running on are the encoder's
\* packets, one for one, each with the timestamp of the unit's first
\* transport packet added to its own modulo 2^32 (taking that timestamp
\* away again, with borrow, gives the encoder's), for every subscriber on
\* its own.
Sub32(a, b) ==
  LET borrow == IF a.lo < b.lo THEN 1 ELSE 0
  IN U32((a.hi - b.hi - borrow + 2 * Half) % Half, (a.lo - b.lo + Half) % Half)
C10_TimestampCorrectedOnce ==
  \A id \in SubIds :
    sub[id].batch # NoBatch =>
      /\ sub[id].running
      /\ Len(sub[id].batch.out) = Len(sub[id].batch.enc)
      /\ Len(sub[id].batch.out) > 0
      /\ \A i \in DOMAIN sub[id].batch.out :
           Sub32(sub[id].batch.out[i], sub[id].batch.first) = sub[id].batch.enc[i]
\* two subscribers run their callbacks on the same wrapped-around timestamp
C10_Witness ==
  /\ \A id \in {1, 2} :
       /\ sub[id].running
       /\ sub[id].batch.first = U32(Half - 1, Half - 1)
       /\ sub[id].batch.enc = <<U32(0, 1), U32(0, 1)>>
       /\ sub[id].batch.out = <<U32(0, 0), U32(0, 0)>>

\* C11: on a camera without passthrough SubscribeRTP returns
\* ErrH264PassthroughNotEnabled and the nil id whatever else would happen,
\* and no subscription is ever created, started or registered.
C11_SubscribeNeedsPassthrough ==
  ~rtpH264Passthrough =>
    /\ \A made \in BOOLEAN :
         SubscribeOutcome(rtpH264Passthrough, made, nSubs) =
           [err |-> "ErrH264PassthroughNotEnabled", id |-> Nil, registers |-> FALSE]
    /\ subAndCBByID = {}
    /\ nSubs = 0
    /\ \A id \in SubIds : sub[id] = SubNone
\* a constructed camera without passthrough, streaming, on which
\* SubscribeRTP is called
C11_Witness ==
  /\ ~rtpH264Passthrough
  /\ ctorPc = "ok"
  /\ playClient # Nil
  /\ closePc = "idle"
  /\ ENABLED SubscribeRTP

\* C12: Unsubscribe(id) returns nil exactly for a registered id; for any
\* other id it returns "id not found" and leaves the registry as it is; a
\* successful call closes that subscription and no other, then removes its
\* id and no other; and an id once out of the registry never comes back, so
\* a second Unsubscribe(id) returns "id not found".
UnsubscribeBeginStep == unsubPc = "idle" /\ unsubPc' = "closing"
UnsubscribeEndStep == unsubPc = "closing" /\ unsubPc' = "idle"
GivenOut(id) == id <= nSubs
C12_UnsubscribeExactlyRegistered ==
  [][/\ \A id \in SubIds :
          /\ UnsubscribeOutcome(id, subAndCBByID).err = "nil" <=> id \in subAndCBByID
          /\ id \notin subAndCBByID =>
               UnsubscribeOutcome(id, subAndCBByID) =
                 [err |-> "id not found", closes |-> FALSE, registry |-> subAndCBByID]
          /\ (GivenOut(id) /\ id \notin subAndCBByID) => id \notin subAndCBByID'
     /\ UnsubscribeBeginStep =>
          /\ unsubId' \in subAndCBByID
          /\ sub'[unsubId'].state = "closed"
          /\ \A o \in SubIds \ {unsubId'} : sub'[o] = sub[o]
          /\ subAndCBByID' = subAndCBByID
     /\ UnsubscribeEndStep =>
          /\ subAndCBByID' = subAndCBByID \ {unsubId}
          /\ sub[unsubId].state = "closed"
          /\ sub' = sub]_vars
\* subscription 1 has been unsubscribed while subscription 2 stays
\* registered and active
C12_Witness ==
  /\ subAndCBByID = {2}
  /\ sub[1].state = "closed"
  /\ sub[2].state = "active"
  /\ unsubPc = "idle"
  /\ closePc = "idle"

\* C13: with passthrough requested, initH265 on a source found to be H.265
\* fails at once: it sets up no transport, creates no decoder and registers
\* no callback, so no H.265 pipeline ever exists on such a camera;
\* reconnectClient then returns that error with client and raw decoder nil,
\* and a constructor that gets it fails, before any subscription (and its
\* encoder) can exist.
H265Refused == rcErr = "h265Passthrough"
C13_H265WithPassthroughFails ==
  /\ [](rtpH264Passthrough =>
          /\ rcPc \notin {"h265Setup", "h265Decoder", "h265OnPacket"}
          /\ cbCodec # "H265")
  /\ []((H265Refused /\ rcPc = "retErr") => (client = Nil /\ rawDecoder = Nil))
  /\ [](ctorPc = "failed" => (nSubs = 0 /\ subAndCBByID = {}))
  /\ [][/\ (rtpH264Passthrough /\ rcPc = "h265Check" /\ rcPc' # rcPc) =>
            /\ rcPc' = "deferClose"
            /\ H265Refused'
            /\ sessVars' = sessVars
            /\ cbVars' = cbVars
        /\ (H265Refused /\ rcBy = "ctor" /\ rcPc = "retErr" /\ rcPc' # rcPc) =>
            ctorPc' = "failed"]_vars
\* the constructor's reconnectClient is returning the refusal
C13_Witness ==
  /\ rtpH264Passthrough
  /\ H265Refused
  /\ rcBy = "ctor"
  /\ rcPc = "retErr"

\* C14: the reader returns "no frame yet" exactly while the frame slot is
\* empty and the slot's image otherwise; the slot is empty at construction,
\* and whenever it changes (by a reconnect step, a decode error or anything
\* else) it changes to an image of the packet being handled, which is newer
\* than the one it held: after a unit it holds the last image decoded
\* before the unit's first decode error, or what it held if there is none.
ImagesBeforeError(nalus) ==
  {i \in DOMAIN nalus :
     nalus[i] = "image" /\ \A j \in 1..i : nalus[j] # "error"}
LastOf(S) == CHOOSE i \in S : \A j \in S : j <= i
SlotKeepsLatest ==
  \A au \in AccessUnits, frame \in {Nil, FrameId(1, 1)}, n \in 1..MaxPackets :
    DecodeLoop(au.nalus, 1, frame, n) =
      IF ImagesBeforeError(au.nalus) = {} THEN frame
      ELSE FrameId(n, LastOf(ImagesBeforeError(au.nalus)))
C14_ReaderGetsLatestFrame ==
  /\ [](/\ VideoReaderFunc(latestFrame).err = "no frame yet" <=> latestFrame = Nil
        /\ latestFrame # Nil =>
             VideoReaderFunc(latestFrame) = [img |-> latestFrame, err |-> "nil"])
  /\ [][/\ SlotKeepsLatest
        /\ latestFrame' # latestFrame =>
             /\ latestFrame' > latestFrame
             /\ latestFrame' \in {FrameId(nPackets, i) : i \in 1..MaxNalus}]_vars
\* a second session streams after a reconnect and the slot still holds the
\* second image of the first packet
C14_Witness ==
  /\ latestFrame = FrameId(1, 2)
  /\ playClient = 2
  /\ cbClient = 2
  /\ VideoReaderFunc(latestFrame).img = FrameId(1, 2)

\* C15: as long as Close has not been called (closeConnection calls then
\* follow one another in one thread): a step of closeConnection on a camera
\* whose client and raw decoder are nil changes nothing of the session; a
\* step that releases a handle releases the installed one, which was still
\* open; when the call is over client and raw decoder are nil and nothing
\* is left open; and no handle is ever open without being the installed one.
CloseConnectionStep ==
  /\ cc["rc"].pc \notin {"off", "done"}
  /\ cc["rc"]' # cc["rc"]
C15_CloseConnectionIdempotent ==
  /\ [](closePc = "idle" =>
          (openClients \subseteq {client} /\ openDecoders \subseteq {rawDecoder}))
  /\ [][(closePc = "idle" /\ CloseConnectionStep) =>
          /\ (client = Nil /\ rawDecoder = Nil) => sessVars' = sessVars
          /\ openClients' # openClients =>
               (client \in openClients /\ openClients' = openClients \ {client})
          /\ openDecoders' # openDecoders =>
               (rawDecoder \in openDecoders
                  /\ openDecoders' = openDecoders \ {rawDecoder})
          /\ cc["rc"].pc' = "done" =>
               /\ client' = Nil /\ rawDecoder' = Nil
               /\ openClients' = {} /\ openDecoders' = {}]_vars
\* the supervisor's second reconnect has run its closeConnection right
\* after the deferred one of the first, which had released client 2 and
\* decoder 2: it found both nil
C15_Witness ==
  /\ closePc = "idle"
  /\ rcBy = "sup"
  /\ rcPc = "closeFirst"
  /\ cc["rc"] = [pc |-> "done", c |-> Nil, d |-> Nil]
  /\ nClients = 2
  /\ nDecoders = 2
  /\ openClients = {}
  /\ openDecoders = {}

\* C16: a unit published to the registered subscriptions reaches each
\* subscriber's own callback: whenever the delivery task of a subscription
\* is inside a packetsCB call, the callback is the one registered with that
\* subscription and it was given all the packets the unit was encoded to.
C16_EachSubscriberGetsItsOwnCallback ==
  \A id \in SubIds :
    sub[id].batch # NoBatch =>
      /\ sub[id].batch.to = id
      /\ Len(sub[id].batch.out) = Len(sub[id].batch.enc)

\* C17: a supervisor tick starts a reconnect exactly when it finds rc.client
\* nil, or its Options call failed with ErrClientTerminated, EOF, EPIPE or
\* ECONNREFUSED, or gave a response whose status is not OK; after any other
\* error, or a response with status OK, the tick ends with no reconnect and
\* the session as it was.
SupCheckStep == supPc = "check" /\ supPc' # "check"
SupJudgeStep == supPc = "judge" /\ supPc' # "judge"
StartsReconnect ==
  /\ supPc' = "reconnect"
  /\ rcPc' = "closeFirst"
  /\ rcBy' = "sup"
C17_ReconnectExactlyWhenUnhealthy ==
  [][/\ SupCheckStep => (StartsReconnect <=> client = Nil)
     /\ SupJudgeStep =>
          /\ StartsReconnect <=>
               \/ supRes[1] \in {"ErrClientTerminated", "EOF", "EPIPE",
                                 "ECONNREFUSED"}
               \/ supRes[2] = "nonOK"
          /\ (supRes[1] = "other" \/ supRes = <<"nil", "OK">>) =>
               /\ supPc' = "wait"
               /\ UNCHANGED <<sessVars, cbVars, rcPc, cc>>]_vars
\* a tick has started a reconnect on a session that exists and is open
C17_Witness ==
  /\ supPc = "reconnect"
  /\ rcBy = "sup"
  /\ rcPc = "closeFirst"
  /\ cc["rc"] = CCBegin
  /\ client # Nil
  /\ client \in openClients
  /\ ~cancelled

\* C18: whenever a reconnect attempt made by the supervisor has failed and
\* the camera is not cancelled, the supervisor later starts another
\* reconnect attempt, unless the camera is cancelled first.
C18_FailedRebuildRetried ==
  (rcBy = "sup" /\ rcPc = "retErr" /\ ~cancelled)
    ~> (cancelled \/ (supPc = "reconnect" /\ rcPc = "closeFirst"))

\* C19: reconnectClient is never run by two callers at once: while it is in
\* progress its one caller is either newRTSPCamera, with the supervisor not
\* yet started, or the supervisor, with newRTSPCamera past its own attempt;
\* and the supervisor is at its wait, its nil test or its probe only when
\* no reconnectClient is in progress.
C19_ReconnectsNeverOverlap ==
  /\ rcPc # "idle" =>
       \/ rcBy = "ctor" /\ ctorPc = "reconnect" /\ supPc = "off"
       \/ rcBy = "sup" /\ supPc = "reconnect" /\ ctorPc # "reconnect"
  /\ supPc \in {"wait", "check", "probe", "judge", "done"} => rcPc = "idle"
  /\ supPc # "off" => ctorPc \notin {"reconnect", "failed", "startSup"}
\* the supervisor is inside its second reconnectClient, after the one of
\* newRTSPCamera and a first one of its own
C19_Witness ==
  /\ ctorPc = "ok"
  /\ supPc = "reconnect"
  /\ rcBy = "sup"
  /\ rcPc = "closeFirst"
  /\ cc["rc"].pc = "done"
  /\ nClients = 2
  /\ ~cancelled

\* C20: on a passthrough H.264 session publishToWebRTC always hands over to
\* storeImage: when it returns before taking the lock (no PTS, or an error
\* of the format processor) and when it returns after it (empty registry,
\* units queued, or Publish errors), the callback goes on to storeImage, and
\* the callback of a packet ends only out of storeImage.
C20_PassthroughNeverSkipsDecode ==
  [][/\ (pktPc = "publish" /\ pktPc' \notin {"publish", "rlock"}) =>
          pktPc' = "store"
     /\ (pktPc = "rlock" /\ pktPc' # "rlock") => pktPc' = "store"
     /\ (pktPc # "idle" /\ pktPc' = "idle") =>
          pktPc \in {"store", "decodeError"}]_vars
\* storeImage is about to run for the second packet, whose unit one
\* subscription queued and the other dropped with its queue full
C20_Witness ==
  /\ pktPc = "store"
  /\ nPackets = 2
  /\ lastPublish = <<"queueFull", "queued">>

\* C21: when the raw decoder fails on a NALU of a unit, the unit is given up
\* there and nothing else is: the frame slot ends as if the unit had stopped
\* just before the failing NALU (the NALUs after it are not decoded, the
\* image stored before it stays), the keyframe gate is open after the H.264
\* unit and as it was after the H.265 one, the step touches neither the
\* session nor the registered callback, the callback ends as after any
\* other unit, and a unit that decodes afterwards is stored as usual.
FirstError(nalus) ==
  CHOOSE i \in DOMAIN nalus :
    nalus[i] = "error" /\ \A j \in 1..(i - 1) : nalus[j] # "error"
BeforeError(au) ==
  [au EXCEPT !.nalus = SubSeq(au.nalus, 1, FirstError(au.nalus) - 1)]
DecodeErrorAbandonsUnit ==
  \A au \in {a \in AccessUnits : DecodeFails(a)},
     frame \in {Nil, FrameId(1, 1)}, n \in 1..MaxPackets :
    /\ DecodeLoop(au.nalus, 1, frame, n)
         = DecodeLoop(BeforeError(au).nalus, 1, frame, n)
    /\ StoreImageH264(TRUE, au, frame, n).gate
    /\ au.idr => StoreImageH264(FALSE, au, frame, n).gate
    /\ StoreImageH265(FALSE, au, frame, n).gate = FALSE
    /\ \A next \in {a \in AccessUnits : ~DecodeFails(a)} :
         LET r == StoreImageH264(TRUE, au, frame, n)
         IN StoreImageH264(r.gate, next, r.frame, n + 1).frame
              = DecodeLoop(next.nalus, 1, r.frame, n + 1)
C21_DecodeErrorAbandonsOnlyTheUnit ==
  [][/\ DecodeErrorAbandonsUnit
     /\ (pktPc # "decodeError" /\ pktPc' = "decodeError") =>
          /\ pktPc = "store"
          /\ cbCodec = "H264" => iFrameReceived'
          /\ latestFrame' \in
               {latestFrame} \cup {FrameId(nPackets, i) : i \in 1..(MaxNalus - 1)}
          /\ UNCHANGED <<sessVars, cbVars>>
     /\ (pktPc = "decodeError" /\ pktPc' # "decodeError") =>
          /\ pktPc' = "idle"
          /\ UNCHANGED <<iFrameReceived, latestFrame, sessVars, cbVars>>]_vars
\* the second unit of an H.264 pipeline stored the image of its first NALU
\* and failed on its second
C21_Witness ==
  /\ cbCodec = "H264"
  /\ pktPc = "decodeError"
  /\ iFrameReceived
  /\ nPackets = 2
  /\ latestFrame = FrameId(2, 1)

\* C22: when the delivery task of a subscription takes a unit whose AU is
\* nil, the job returns no error, no callback runs, the task is free again
\* at once, and firstReceived and lastPTS of every subscription stay as they
\* were; whatever comes after it is handled as if it had not been there.
EmptyUnitLeavesNoTrace ==
  \A first \in BOOLEAN, last \in 0..MaxPTS, u \in Units, enc \in EncodeResults :
    LET s == [SubNone EXCEPT !.firstReceived = first, !.lastPTS = last]
        r == UnitSubscriberFunc(s, NilUnit, enc)
        after == [s EXCEPT !.firstReceived = r.firstReceived,
                           !.lastPTS = r.lastPTS]
    IN /\ r.does = "noop"
       /\ r.out = <<>>
       /\ UnitSubscriberFunc(after, u, enc) = UnitSubscriberFunc(s, u, enc)
C22_EmptyUnitIsNoOp ==
  [][/\ EmptyUnitLeavesNoTrace
     /\ \A id \in SubIds :
          (DeliverStep(id) /\ ~Taken(id).au) =>
            /\ sub'[id].errs = {}
            /\ ~sub'[id].running
            /\ sub'[id].batch = NoBatch
            /\ \A t \in SubIds :
                 /\ sub'[t].firstReceived = sub[t].firstReceived
                 /\ sub'[t].lastPTS = sub[t].lastPTS]_vars
\* the delivery task of a subscription that has accepted a unit of PTS 1 is
\* about to take a unit with no AU
C22_Witness ==
  \E id \in SubIds :
    /\ sub[id].state = "active"
    /\ sub[id].firstReceived
    /\ sub[id].lastPTS = 1
    /\ sub[id].queue # <<>>
    /\ ~Taken(id).au
    /\ ENABLED SubDeliver(id)

\* C23: once Close has returned there is no session and no supervisor:
\* rc.client and rc.rawDecoder are nil, no client or decoder is open, the
\* supervisor has ended and no reconnectClient is in progress.
C23_NoSessionAfterClose ==
  closePc = "returned" =>
    /\ client = Nil
    /\ rawDecoder = Nil
    /\ openClients = {}
    /\ openDecoders = {}
    /\ supPc = "done"
    /\ rcPc = "idle"

\* C24: once Close has returned the registry is empty and no subscription
\* is active.
C24_NoSubscriptionAfterClose ==
  closePc = "returned" =>
    /\ subAndCBByID = {}
    /\ \A id \in SubIds : sub[id].state # "active"

\* C25: whenever rc.subsMu is not held by a writer, every subscription in
\* the registry has been started and not closed; so the fan-out, which
\* reads the registry under the read lock, publishes to active
\* subscriptions only and never gets the answer of a closed one.
C25_FanoutSeesOnlyActive ==
  /\ [](subsMu = "free" =>
          \A id \in subAndCBByID : sub[id].state = "active")
  /\ [][FanoutStep =>
          \A id \in subAndCBByID :
            /\ sub[id].state = "active"
            /\ lastPublish'[id] \in {"queued", "queueFull"}]_vars
\* after subscription 1 was unsubscribed, a fan-out has published to
\* subscription 2 and to nothing else
C25_Witness ==
  /\ pktPc = "store"
  /\ subAndCBByID = {2}
  /\ sub[1].state = "closed"
  /\ lastPublish = <<"none", "queued">>

\* C26: a non-empty unit that the session made by a reconnect has just
\* queued for a subscription is one the subscription's ordering test lets
\* through, whatever PTS the subscription remembers from the session before.
C26_DeliveryResumesAfterReconnect ==
  \A id \in subAndCBByID :
    (/\ cbClient = 2
     /\ pktPc = "store"
     /\ lastPublish[id] = "queued"
     /\ sub[id].queue # <<>>
     /\ Taken(id).au) => ~OutOfOrder(id)

\* C27: once Close has been called it returns, and by then the supervisor
\* has ended and every subscription it found registered is closed.
ReconnectHeldAtClientBound ==
  rcPc = "closeFirst" /\ cc["rc"].pc = "done" /\ nClients = MaxClients
C27_CloseTerminates ==
  /\ (closePc = "unsubscribeAll")
       ~> (closePc = "returned" \/ ReconnectHeldAtClientBound)
  /\ [](closePc = "returned" => (supPc = "done" /\ sub[1].state = "closed"))

\* C28: when newRTSPCamera has returned an error, no supervisor is running
\* and no client and no raw decoder is open.
C28_FailedConstructionLeaksNothing ==
  ctorPc \in {"failed", "failedLate"} =>
    /\ supPc \in {"off", "done"}
    /\ openClients = {}
    /\ openDecoders = {}

====
